---- MODULE Spec2Model ----
(***************************************************************************)
(* Model of the PayFast bridge of server.js: the signature builder         *)
(* generatePayFastSignature and the notify webhook handler                 *)
(* app.post("/api/payfast/notify") with the store it talks to.             *)
(*                                                                         *)
(* Strings are sequences of tokens.  A token is one reserved character     *)
(* (" ", "+", "=", "&", "%"), one escape body ("20", "2B", ...) or an atom *)
(* standing for a run of unreserved characters ("amount_gross",            *)
(* "COMPLETE", "1", ...).  The atoms are chosen so that no string has two  *)
(* tokenisations.                                                          *)
(***************************************************************************)
EXTENDS Integers, Sequences, FiniteSets, TLC

VARIABLES balance, balance0, transactions, payments, req, sg, tn, cp, clock

vars == <<balance, balance0, transactions, payments, req, sg, tn, cp, clock>>

-----------------------------------------------------------------------------
(* JavaScript values and string primitives                                 *)

\* the values undefined and null; of the other values, true, false and the
\* numbers are tagged, and every untagged value is a string
Undefined == <<"<undefined>">>
Null == <<"<null>">>

True == <<"<true>">>

False == <<"<false>">>

\* the number written with these digits (and sign)
NumberValue(digits) == <<"<number>">> \o digits

IsNumberValue(v) == v # <<>> /\ v[1] = "<number>"

\* String(v)
String(v) ==
  CASE v = Undefined -> <<"undefined">>
    [] v = Null -> <<"null">>
    [] v = True -> <<"true">>
    [] v = False -> <<"false">>
    [] IsNumberValue(v) -> Tail(v)
    [] OTHER -> v

Range(s) == {s[i] : i \in 1..Len(s)}

RECURSIVE TrimStart(_)
TrimStart(s) == IF s # <<>> /\ Head(s) = " " THEN TrimStart(Tail(s)) ELSE s

RECURSIVE TrimEnd(_)
TrimEnd(s) == IF s # <<>> /\ s[Len(s)] = " " THEN TrimEnd(SubSeq(s, 1, Len(s) - 1)) ELSE s

\* String.prototype.trim
Trim(s) == TrimEnd(TrimStart(s))

RECURSIVE Flatten(_)
Flatten(ss) == IF ss = <<>> THEN <<>> ELSE Head(ss) \o Flatten(Tail(ss))

RECURSIVE Join(_, _)
Join(ss, sep) ==
  IF ss = <<>> THEN <<>>
  ELSE IF Len(ss) = 1 THEN ss[1]
  ELSE ss[1] \o <<sep>> \o Join(Tail(ss), sep)

RECURSIVE SplitFrom(_, _, _, _)
SplitFrom(s, sep, i, cur) ==
  IF i > Len(s) THEN <<cur>>
  ELSE IF s[i] = sep THEN <<cur>> \o SplitFrom(s, sep, i + 1, <<>>)
  ELSE SplitFrom(s, sep, i + 1, Append(cur, s[i]))

\* String.prototype.split(sep): "".split(sep) is [""]
Split(s, sep) == SplitFrom(s, sep, 1, <<>>)

\* percent-escape of one character; unreserved characters are kept
EncodeChar(c) ==
  CASE c = " " -> <<"%", "20">>
    [] c = "+" -> <<"%", "2B">>
    [] c = "=" -> <<"%", "3D">>
    [] c = "&" -> <<"%", "26">>
    [] c = "%" -> <<"%", "25">>
    [] c = ":" -> <<"%", "3A">>
    [] c = "/" -> <<"%", "2F">>
    [] OTHER -> <<c>>

encodeURIComponent(s) == Flatten([i \in 1..Len(s) |-> EncodeChar(s[i])])

RECURSIVE ReplacePct20(_)
\* .replace(/%20/g, '+')
ReplacePct20(s) ==
  IF s = <<>> THEN <<>>
  ELSE IF Len(s) >= 2 /\ s[1] = "%" /\ s[2] = "20" THEN <<"+">> \o ReplacePct20(SubSeq(s, 3, Len(s)))
  ELSE <<Head(s)>> \o ReplacePct20(Tail(s))

Escapes == {"20", "2B", "3D", "26", "25", "3A", "2F"}

Unescape(h) ==
  CASE h = "20" -> " "
    [] h = "2B" -> "+"
    [] h = "3D" -> "="
    [] h = "26" -> "&"
    [] h = "25" -> "%"
    [] h = "3A" -> ":"
    [] h = "2F" -> "/"

URIError == "<URIError>"

RECURSIVE DecodeFrom(_, _)
DecodeFrom(s, i) ==
  IF i > Len(s) THEN <<>>
  ELSE IF s[i] = "%"
       THEN IF i + 1 <= Len(s) /\ s[i + 1] \in Escapes
            THEN <<Unescape(s[i + 1])>> \o DecodeFrom(s, i + 2)
            ELSE <<URIError>>
       ELSE <<s[i]>> \o DecodeFrom(s, i + 1)

\* decodeURIComponent: "+" is not an escape and stays "+"; a "%" that starts
\* no escape throws
decodeURIComponent(s) ==
  LET d == DecodeFrom(s, 1)
  IN [threw |-> URIError \in Range(d), value |-> d]

Digits == {"0", "1", "2", "7"}

DigitValue(c) == CASE c = "0" -> 0 [] c = "1" -> 1 [] c = "2" -> 2 [] c = "7" -> 7

RECURSIVE DigitsValue(_, _)
DigitsValue(s, acc) == IF s = <<>> THEN acc ELSE DigitsValue(Tail(s), 10 * acc + DigitValue(Head(s)))

RECURSIVE DigitPrefix(_)
DigitPrefix(s) == IF s # <<>> /\ Head(s) \in Digits THEN <<Head(s)>> \o DigitPrefix(Tail(s)) ELSE <<>>

NaN == [nan |-> TRUE, n |-> 0]

Num(n) == [nan |-> FALSE, n |-> n]

\* parseFloat: leading white space skipped, optional sign, the longest
\* numeric prefix; NaN without one.  undefined reads as "undefined": NaN
parseFloat(v) ==
  LET t == TrimStart(String(v))
      neg == t # <<>> /\ Head(t) = "-"
      u == IF t # <<>> /\ Head(t) \in {"-", "+"} THEN Tail(t) ELSE t
      d == DigitPrefix(u)
  IN IF d = <<>> THEN NaN
     ELSE Num(IF neg THEN 0 - DigitsValue(d, 0) ELSE DigitsValue(d, 0))

-----------------------------------------------------------------------------
(* Plain objects as ordered mappings: a sequence of <<key, value>> in the  *)
(* order Object.keys reports (integer-like keys ascending, then the other  *)
(* keys in insertion order)                                                *)

IsArrayIndex(k) ==
  /\ k # <<>>
  /\ Range(k) \subseteq Digits
  /\ (Len(k) = 1 \/ k[1] # "0")

HasKey(o, k) == \E i \in 1..Len(o) : o[i][1] = k

\* o[k]
ObjGet(o, k) ==
  IF HasKey(o, k) THEN o[CHOOSE i \in 1..Len(o) : o[i][1] = k][2] ELSE Undefined

InsertAt(o, i, p) == SubSeq(o, 1, i - 1) \o <<p>> \o SubSeq(o, i, Len(o))

\* o[k] = v
ObjSet(o, k, v) ==
  IF HasKey(o, k)
  THEN [i \in 1..Len(o) |-> IF o[i][1] = k THEN <<k, v>> ELSE o[i]]
  ELSE IF IsArrayIndex(k)
       THEN LET later == {i \in 1..Len(o) :
                            \/ ~IsArrayIndex(o[i][1])
                            \/ DigitsValue(o[i][1], 0) > DigitsValue(k, 0)}
                at == IF later = {} THEN Len(o) + 1
                      ELSE CHOOSE i \in later : \A j \in later : i <= j
            IN InsertAt(o, at, <<k, v>>)
       ELSE Append(o, <<k, v>>)

\* delete o[k]
ObjDelete(o, k) == SelectSeq(o, LAMBDA p : p[1] # k)

ObjectKeys(o) == [i \in 1..Len(o) |-> o[i][1]]

RECURSIVE ObjectFromEntries(_)
ObjectFromEntries(entries) ==
  IF entries = <<>> THEN <<>>
  ELSE LET e == entries[Len(entries)]
       IN ObjSet(ObjectFromEntries(SubSeq(entries, 1, Len(entries) - 1)), e[1], e[2])

-----------------------------------------------------------------------------
(* The signature builder                                                   *)

\* crypto.createHash('md5').update(s).digest('hex'), taken to be free of
\* collisions: an injective map into strings of hexadecimal chunks
md5hex(s) == [i \in 1..Len(s) |-> "#" \o s[i]]

\* a filter that drops undefined values only
KeepParamDefined(v) == v # Undefined

\* line 297
KeepParam(v) == v # Undefined /\ v # Null /\ v # <<>>

EncodeValue(v) == ReplacePct20(encodeURIComponent(Trim(String(v))))

\* a builder that leaves the amount out of the signed string
FilterParamsNoAmount(params, i) ==
  SelectSeq(params, LAMBDA p : KeepParam(p[2]) /\ p[1] # <<"amount_gross">>)

\* a builder that puts the kept fields in a canonical key order
KeyOrder ==
  <<<<"7">>, <<"amount_gross">>, <<"custom_str1">>, <<"item_name">>, <<"m_payment_id">>,
    <<"payment_status">>, <<"pf_payment_id">>>>

FilterParamsSorted(params, i) ==
  LET known == SelectSeq(KeyOrder, LAMBDA k : HasKey(params, k) /\ KeepParam(ObjGet(params, k)))
      rest == SelectSeq(params, LAMBDA p : KeepParam(p[2]) /\ p[1] \notin Range(KeyOrder))
  IN [j \in 1..Len(known) |-> <<known[j], ObjGet(params, known[j])>>] \o rest

RECURSIVE FilterParams(_, _)
FilterParams(params, i) ==
  IF i = 0 THEN <<>>
  ELSE LET rest == FilterParams(params, i - 1)
       IN IF KeepParam(params[i][2]) THEN ObjSet(rest, params[i][1], params[i][2]) ELSE rest

\* a builder that hashes the bare parameter string
PassphraseSegmentNone(passphrase) == <<>>

PassphraseSegment(passphrase) == <<"&", "passphrase", "=">> \o Trim(String(passphrase))

generatePayFastSignature(params, passphrase) ==
  LET orderedParams == FilterParams(params, Len(params))
      paramPairs == [i \in 1..Len(orderedParams) |->
                       orderedParams[i][1] \o <<"=">> \o EncodeValue(orderedParams[i][2])]
      paramString == Join(paramPairs, "&")
      stringToHash == paramString \o PassphraseSegment(passphrase)
  IN [signature |-> md5hex(stringToHash),
      paramString |-> paramString,
      stringToHash |-> stringToHash,
      paramOrder |-> ObjectKeys(orderedParams)]

-----------------------------------------------------------------------------
(* The notify handler up to its signature check                            *)

\* req.body when the request carries no text body: not a string
NoBody == <<"<object>">>

ParsePair(pair) ==
  LET kv == Split(pair, "=")
      value == IF Len(kv) >= 2 THEN kv[2] ELSE Undefined
  IN <<kv[1], decodeURIComponent(IF value \in {Undefined, <<>>} THEN <<>> ELSE value)>>

ParseBody(body) ==
  IF body = NoBody THEN [threw |-> TRUE, params |-> <<>>]
  ELSE LET pairs == Split(body, "&")
           decoded == [i \in 1..Len(pairs) |-> ParsePair(pairs[i])]
       IN IF \E i \in 1..Len(decoded) : decoded[i][2].threw
          THEN [threw |-> TRUE, params |-> <<>>]
          ELSE [threw |-> FALSE,
                params |-> ObjectFromEntries([i \in 1..Len(decoded) |->
                                                <<decoded[i][1], decoded[i][2].value>>])]

\* a comparison that accepts whatever signature it is given
SignatureMatchesAny(received, expected) == TRUE

SignatureMatches(received, expected) == received = expected

\* lines 512-542: "malformed", "badsig" or "pass", with the parameters left
\* after delete params.signature
VerifyNotification(body, envPassphrase) ==
  LET parsed == ParseBody(body)
      receivedSignature == ObjGet(parsed.params, <<"signature">>)
      params == ObjDelete(parsed.params, <<"signature">>)
      passphrase == Trim(String(envPassphrase))
      expected == generatePayFastSignature(params, passphrase).signature
  IN IF parsed.threw THEN [verdict |-> "malformed", params |-> <<>>]
     ELSE IF ~SignatureMatches(receivedSignature, expected)
          THEN [verdict |-> "badsig", params |-> params]
          ELSE [verdict |-> "pass", params |-> params]

-----------------------------------------------------------------------------
(* The store: users.balance, the transactions table (a bag of rows) and    *)
(* payments.status by payment_id                                           *)

UserIds == {<<"u1">>, <<"u2">>}

PaymentIds == {<<"p1">>}

\* process.env.PAYFAST_PASSPHRASE; the server exits at start when it is unset
EnvPassphrase == <<"s1">>

InitBalance == 5

NumReq == 2

Reqs == 1..NumReq

\* a || b on strings
Or(a, b) == IF a \in {Undefined, Null, <<>>} THEN b ELSE a

\* !v on a string
FalsyStr(v) == v \in {Undefined, Null, <<>>}

\* a check that lets NaN through
FalsyNumZeroOnly(x) == ~x.nan /\ x.n = 0

\* !amount on a number
FalsyNum(x) == x.nan \/ x.n = 0

UserIdOf(params) == Or(ObjGet(params, <<"custom_str1">>), ObjGet(params, <<"custom_int1">>))

\* a handler that reads the amount field only
AmountOfAmountField(params) == parseFloat(ObjGet(params, <<"amount">>))

AmountOf(params) == parseFloat(Or(ObjGet(params, <<"amount_gross">>), ObjGet(params, <<"amount">>)))

\* a handler that applies a notification whatever its status
IsCompleteAlways(params) == TRUE

\* line 546
IsComplete(params) == ObjGet(params, <<"payment_status">>) = <<"COMPLETE">>

\* a lookup whose error is not looked at
LookupFoundAlways(bal, userId, storeError) == TRUE

\* .from('users').select('id, balance').eq('id', userId).single(): an error
\* when the store fails or no row has that id
LookupFound(bal, userId, storeError) == ~storeError /\ userId \in DOMAIN bal

\* increment_balance: UPDATE users SET balance = COALESCE(balance, 0) +
\* amount_input WHERE id = user_id_input, one atomic statement
RpcIncrement(bal, userId, amount) ==
  [u \in DOMAIN bal |-> IF u = userId THEN bal[u] + amount ELSE bal[u]]

\* user.balance of the row the lookup returned
SnapshotOf(bal, userId) == IF userId \in DOMAIN bal THEN bal[userId] ELSE 0

\* a primary path that writes the balance read at the lookup plus the amount
BalanceAfterRpcStale(bal, userId, amount, snap) ==
  [u \in DOMAIN bal |-> IF u = userId THEN snap + amount ELSE bal[u]]

\* the primary path: .rpc("increment_balance", {user_id_input, amount_input})
BalanceAfterRpc(bal, userId, amount, snap) == RpcIncrement(bal, userId, amount)

\* a fallback that writes the amount alone
BalanceAfterFallbackAmountOnly(bal, userId, amount, snap) ==
  [u \in DOMAIN bal |-> IF u = userId THEN amount ELSE bal[u]]

\* a fallback that reads the balance again before it writes
BalanceAfterFallbackFresh(bal, userId, amount, snap) ==
  [u \in DOMAIN bal |-> IF u = userId THEN bal[u] + amount ELSE bal[u]]

\* the fallback: .update({ balance: user.balance + amount }).eq('id', userId)
BalanceAfterFallback(bal, userId, amount, snap) ==
  [u \in DOMAIN bal |-> IF u = userId THEN snap + amount ELSE bal[u]]

TxRow(r) ==
  [user_id |-> r.userId, amount |-> r.amount, type |-> "deposit",
   status |-> "completed", payment_id |-> r.paymentId, reference |-> r.pfPaymentId]

BagAdd(b, x) ==
  IF x \in DOMAIN b THEN [b EXCEPT ![x] = @ + 1] ELSE [y \in DOMAIN b \cup {x} |-> IF y = x THEN 1 ELSE b[y]]

Copies(b, x) == IF x \in DOMAIN b THEN b[x] ELSE 0

RECURSIVE BagSize(_)
BagSize(b) ==
  IF DOMAIN b = {} THEN 0
  ELSE LET x == CHOOSE y \in DOMAIN b : TRUE
       IN b[x] + BagSize([y \in DOMAIN b \ {x} |-> b[y]])

\* an insert that skips a payment_id already recorded
InsertTransactionOnce(txs, row) ==
  IF \E x \in DOMAIN txs : x.payment_id = row.payment_id THEN txs ELSE BagAdd(txs, row)

\* .from("transactions").insert([row])
InsertTransaction(txs, row) == BagAdd(txs, row)

\* .from("payments").update({status: "completed"}).eq("payment_id", paymentId)
CompletePayment(pays, paymentId) ==
  [p \in DOMAIN pays |-> IF p = paymentId /\ pays[p] # "none" THEN "completed" ELSE pays[p]]

-----------------------------------------------------------------------------
(* Notifications the gateway (or anybody else) posts to the notify URL     *)

\* the form body the gateway posts for fields signed with secret
SignedBody(fields, secret) ==
  LET s == generatePayFastSignature(fields, secret)
  IN s.paramString \o <<"&", "signature", "=">> \o s.signature

NoteFields(n) ==
  <<<<<<"m_payment_id">>, n.pid>>, <<<<"pf_payment_id">>, <<"pf">>>>,
    <<<<"payment_status">>, n.status>>, <<<<"amount_gross">>, n.amount>>,
    <<<<"custom_str1">>, n.user>>>>

\* the raw amount_gross text a tampering sender puts in place of the signed one
TamperedAmount(n) ==
  CASE n.tamper = "amount_other" -> <<"2">>
    [] n.tamper = "amount_pad" -> n.amount \o <<"%", "20">>
    [] n.tamper = "amount_plus" -> n.amount \o <<"+">>
    [] OTHER -> n.amount

ReplaceAmount(n) ==
  LET f == NoteFields(n)
      raw == [i \in 1..Len(f) |->
                f[i][1] \o <<"=">> \o
                (IF f[i][1] = <<"amount_gross">> THEN TamperedAmount(n) ELSE EncodeValue(f[i][2]))]
  IN Join(raw, "&")

BodyOf(n) ==
  LET s == generatePayFastSignature(NoteFields(n), EnvPassphrase)
  IN CASE n.tamper = "none" -> SignedBody(NoteFields(n), EnvPassphrase)
       [] n.tamper = "nosig" -> s.paramString
       [] n.tamper = "sigmut" ->
            s.paramString \o <<"&", "signature", "=">> \o
            [s.signature EXCEPT ![1] = "#~"]
       [] n.tamper = "wrongsecret" -> SignedBody(NoteFields(n), <<"s2">>)
       [] n.tamper = "nobody" -> NoBody
       [] n.tamper = "badpct" ->
            SignedBody(NoteFields(n), EnvPassphrase) \o <<"&", "name_first", "=", "%">>
       [] OTHER -> ReplaceAmount(n) \o <<"&", "signature", "=">> \o s.signature

BaseNote == [pid |-> <<"p1">>, status |-> <<"COMPLETE">>, amount |-> <<"1">>,
             user |-> <<"u1">>, tamper |-> "none"]

AmountTampers == {"amount_other", "amount_pad", "amount_plus"}

Tampers == {"nosig", "sigmut", "wrongsecret"} \cup AmountTampers

\* a request without a text body, and a body with a value that ends in a
\* lone "%"
Malformed == {"nobody", "badpct"}

Notifications ==
  {[BaseNote EXCEPT !.amount = a] : a \in {<<"1">>, <<"2">>, <<"0">>, <<"a">>}}
  \cup {[BaseNote EXCEPT !.user = u] : u \in {<<"ghost">>, <<>>}}
  \cup {[BaseNote EXCEPT !.status = <<"FAILED">>]}
  \cup {[BaseNote EXCEPT !.tamper = t] : t \in Tampers \cup Malformed}

-----------------------------------------------------------------------------
(* The notify handler, one action per store operation it awaits            *)

IdleReq ==
  [pc |-> "idle", note |-> BaseNote, sigValid |-> FALSE, userId |-> <<>>, amount |-> 0,
   paymentId |-> <<>>, pfPaymentId |-> <<>>, snap |-> 0, via |-> "none", status |-> 0,
   calls |-> <<>>, failed |-> {}, delta |-> 0, others |-> FALSE, txAdded |-> 0]

\* whether the received signature equals the one recomputed over the other
\* fields (the yardstick the handler's own comparison is held against)
SignatureIsValid(body) ==
  LET parsed == ParseBody(body)
  IN /\ ~parsed.threw
     /\ ObjGet(parsed.params, <<"signature">>) =
          generatePayFastSignature(ObjDelete(parsed.params, <<"signature">>),
                                   Trim(String(EnvPassphrase))).signature

Respond(r, code) == [r EXCEPT !.pc = "done", !.status = code]

\* a parse error left to the outer catch
ParseFailedUncaught(r) == Respond(r, 500)

\* lines 522-525: catch (parseError) return res.status(400)
ParseFailed(r) == Respond(r, 400)

\* lines 505-561: parse, verify, branch on payment_status, read the fields
HandleNotify(r, body) ==
  LET v == VerifyNotification(body, EnvPassphrase)
      userId == UserIdOf(v.params)
      amount == AmountOf(v.params)
  IN IF v.verdict = "malformed" THEN ParseFailed(r)
     ELSE IF v.verdict # "pass" THEN Respond(r, 400)
     ELSE IF ~IsComplete(v.params) THEN Respond(r, 200)
     ELSE IF FalsyStr(userId) \/ FalsyNum(amount) THEN Respond(r, 400)
     ELSE [r EXCEPT !.pc = "lookup", !.userId = userId, !.amount = amount.n,
                    !.paymentId = ObjGet(v.params, <<"m_payment_id">>),
                    !.pfPaymentId = ObjGet(v.params, <<"pf_payment_id">>)]

\* the handler's synchronous part, once per notification
Arrival ==
  [n \in Notifications |->
     HandleNotify([IdleReq EXCEPT !.note = n, !.sigValid = SignatureIsValid(BodyOf(n))], BodyOf(n))]

Receive(i) ==
  /\ req[i].pc = "idle"
  /\ \E n \in Notifications : req' = [req EXCEPT ![i] = Arrival[n]]
  /\ UNCHANGED <<balance, balance0, transactions, payments, sg, tn, cp, clock>>

\* lines 563-575
Lookup(i) ==
  /\ req[i].pc = "lookup"
  /\ \E storeError \in BOOLEAN :
       LET r0 == [req[i] EXCEPT !.calls = Append(@, "select_user")]
       IN req' = [req EXCEPT ![i] =
            IF LookupFound(balance, r0.userId, storeError)
            THEN [r0 EXCEPT !.pc = "rpc", !.snap = SnapshotOf(balance, r0.userId)]
            ELSE Respond([r0 EXCEPT !.failed = @ \cup {"select_user"}], 400)]
  /\ UNCHANGED <<balance, balance0, transactions, payments, sg, tn, cp, clock>>

\* what a balance step changed: the row of u (no row, no change) and the rest
BalanceDelta(new, old, u) == IF u \in DOMAIN old THEN new[u] - old[u] ELSE 0

OthersChanged(new, old, u) == \E w \in DOMAIN old \ {u} : new[w] # old[w]

\* lines 577-586, 602-604.  user.balance is last read at line 592: the
\* snapshot is dropped once the balance step is over
Rpc(i) ==
  /\ req[i].pc = "rpc"
  /\ \E rpcError \in BOOLEAN :
       LET r0 == [req[i] EXCEPT !.calls = Append(@, "rpc")]
           new == BalanceAfterRpc(balance, r0.userId, r0.amount, r0.snap)
       IN IF rpcError
          THEN /\ req' = [req EXCEPT ![i] = [r0 EXCEPT !.pc = "fallback", !.failed = @ \cup {"rpc"}]]
               /\ UNCHANGED balance
          ELSE /\ balance' = new
               /\ req' = [req EXCEPT ![i] =
                    [r0 EXCEPT !.pc = "insertTx", !.via = "rpc", !.snap = 0,
                               !.delta = BalanceDelta(new, balance, r0.userId),
                               !.others = OthersChanged(new, balance, r0.userId)]]
  /\ UNCHANGED <<balance0, transactions, payments, sg, tn, cp, clock>>

\* a fallback whose error is only logged: the handler goes on and answers 200
FallbackFailedLogged(r) == [r EXCEPT !.pc = "insertTx", !.failed = @ \cup {"update_balance"}]

\* lines 596-598: if (updateError) return res.status(500)
FallbackFailed(r) == Respond([r EXCEPT !.failed = @ \cup {"update_balance"}], 500)

\* lines 588-601
Fallback(i) ==
  /\ req[i].pc = "fallback"
  /\ \E updateError \in BOOLEAN :
       LET r0 == [req[i] EXCEPT !.calls = Append(@, "update_balance")]
           new == BalanceAfterFallback(balance, r0.userId, r0.amount, r0.snap)
       IN IF updateError
          THEN /\ req' = [req EXCEPT ![i] = FallbackFailed(r0)]
               /\ UNCHANGED balance
          ELSE /\ balance' = new
               /\ req' = [req EXCEPT ![i] =
                    [r0 EXCEPT !.pc = "insertTx", !.via = "fallback", !.snap = 0,
                               !.delta = BalanceDelta(new, balance, r0.userId),
                               !.others = OthersChanged(new, balance, r0.userId)]]
  /\ UNCHANGED <<balance0, transactions, payments, sg, tn, cp, clock>>

\* lines 606-634: the read of the new balance (logged only), then the insert
InsertTx(i) ==
  /\ req[i].pc = "insertTx"
  /\ \E transactionError \in BOOLEAN :
       LET r0 == [req[i] EXCEPT !.calls = @ \o <<"select_balance", "insert_transaction">>]
           new == InsertTransaction(transactions, TxRow(r0))
       IN IF transactionError
          THEN /\ req' = [req EXCEPT ![i] = [r0 EXCEPT !.pc = "updatePayment",
                                                        !.failed = @ \cup {"insert_transaction"}]]
               /\ UNCHANGED transactions
          ELSE /\ transactions' = new
               /\ req' = [req EXCEPT ![i] = [r0 EXCEPT !.pc = "updatePayment",
                                                        !.txAdded = BagSize(new) - BagSize(transactions)]]
  /\ UNCHANGED <<balance, balance0, payments, sg, tn, cp, clock>>

\* lines 636-660
UpdatePayment(i) ==
  /\ req[i].pc = "updatePayment"
  /\ \E paymentError \in BOOLEAN :
       LET r0 == [req[i] EXCEPT !.calls = Append(@, "update_payment")]
       IN IF paymentError
          THEN /\ req' = [req EXCEPT ![i] = Respond(r0, 200)]
               /\ UNCHANGED payments
          ELSE /\ payments' = CompletePayment(payments, r0.paymentId)
               /\ req' = [req EXCEPT ![i] = Respond(r0, 200)]
  /\ UNCHANGED <<balance, balance0, transactions, sg, tn, cp, clock>>

\* the store call a request is waiting for
Awaited(r) ==
  CASE r.pc = "lookup" -> "select_user"
    [] r.pc = "rpc" -> "rpc"
    [] r.pc = "fallback" -> "update_balance"
    [] r.pc = "insertTx" -> "insert_transaction"
    [] r.pc = "updatePayment" -> "update_payment"
    [] OTHER -> "none"

\* an exception that is caught nowhere and never answered
UncaughtUnanswered(r) ==
  [r EXCEPT !.pc = "hung", !.calls = Append(@, Awaited(r)), !.failed = @ \cup {"exception"}]

\* lines 661-665: catch (error) res.status(500)
Caught(r) ==
  Respond([r EXCEPT !.calls = Append(@, Awaited(r)), !.failed = @ \cup {"exception"}], 500)

\* an awaited store call rejects instead of resolving to { data, error }:
\* the await throws inside the outer try
StoreThrows(i) ==
  /\ Awaited(req[i]) # "none"
  /\ req' = [req EXCEPT ![i] = Caught(req[i])]
  /\ UNCHANGED <<balance, balance0, transactions, payments, sg, tn, cp, clock>>

-----------------------------------------------------------------------------
(* The clock, and the test endpoints POST and GET /api/payfast/test-notify *)

MaxClock == 2

\* time passes
Tick ==
  /\ clock < MaxClock
  /\ clock' = clock + 1
  /\ UNCHANGED <<balance, balance0, transactions, payments, req, sg, tn, cp>>

DigitChar(d) ==
  CASE d = 0 -> "0" [] d = 1 -> "1" [] d = 2 -> "2" [] d = 3 -> "3" [] d = 4 -> "4"
    [] d = 5 -> "5" [] d = 6 -> "6" [] d = 7 -> "7" [] d = 8 -> "8" [] d = 9 -> "9"

RECURSIVE NaturalToString(_)
NaturalToString(n) ==
  IF n < 10 THEN <<DigitChar(n)>> ELSE Append(NaturalToString(n \div 10), DigitChar(n % 10))

\* `${n}` for an integer n
NumberToString(n) == IF n < 0 THEN <<"-">> \o NaturalToString(0 - n) ELSE NaturalToString(n)

\* Date.now() in a template string
DateNow(t) == NumberToString(t)

TestReqs == {1}

TestMethods == {"POST", "GET"}

\* userId of the request body or query; undefined when it is not sent
TestUsers == {<<"u1">>, <<"ghost">>, Undefined}

\* amount of the request body or query; undefined when it is not sent
TestAmounts == {Undefined, <<"1">>, <<"-", "1">>}

\* const { userId, amount = 100 } = req.body
AmountOrDefault(amount) == IF amount = Undefined THEN NumberValue(<<"1", "0", "0">>) ELSE amount

IdleTest ==
  [pc |-> "idle", method |-> "POST", userId |-> <<>>, amount |-> 0, snap |-> 0,
   via |-> "none", status |-> 0, delta |-> 0]

\* lines 759-772, 861-874
TestReceive(k) ==
  /\ tn[k].pc = "idle"
  /\ \E method \in TestMethods, userId \in TestUsers, amount \in TestAmounts :
       tn' = [tn EXCEPT ![k] =
                IF FalsyStr(userId)
                THEN [IdleTest EXCEPT !.pc = "done", !.method = method, !.status = 400]
                ELSE [IdleTest EXCEPT !.pc = "lookup", !.method = method, !.userId = userId,
                                      !.amount = parseFloat(AmountOrDefault(amount)).n]]
  /\ UNCHANGED <<balance, balance0, transactions, payments, req, sg, cp, clock>>

\* lines 776-787, 878-899
TestLookup(k) ==
  /\ tn[k].pc = "lookup"
  /\ \E storeError \in BOOLEAN :
       tn' = [tn EXCEPT ![k] =
                IF LookupFound(balance, tn[k].userId, storeError)
                THEN [tn[k] EXCEPT !.pc = "rpc", !.snap = SnapshotOf(balance, tn[k].userId)]
                ELSE [tn[k] EXCEPT !.pc = "done", !.status = 404]]
  /\ UNCHANGED <<balance, balance0, transactions, payments, req, sg, cp, clock>>

\* lines 789-797, 903-910
TestRpc(k) ==
  /\ tn[k].pc = "rpc"
  /\ \E rpcError \in BOOLEAN :
       LET new == RpcIncrement(balance, tn[k].userId, tn[k].amount)
       IN IF rpcError
          THEN /\ tn' = [tn EXCEPT ![k] = [tn[k] EXCEPT !.pc = "fallback"]]
               /\ UNCHANGED balance
          ELSE /\ balance' = new
               /\ tn' = [tn EXCEPT ![k] =
                    [tn[k] EXCEPT !.pc = "insertTx", !.via = "rpc", !.snap = 0,
                                  !.delta = BalanceDelta(new, balance, tn[k].userId)]]
  /\ UNCHANGED <<balance0, transactions, payments, req, sg, cp, clock>>

\* lines 799-810, 912-923: (user.balance || 0) + parseFloat(amount); a failed
\* update is answered 500 (returned by POST, thrown and caught by GET)
TestFallback(k) ==
  /\ tn[k].pc = "fallback"
  /\ \E directError \in BOOLEAN :
       LET new == BalanceAfterFallback(balance, tn[k].userId, tn[k].amount, tn[k].snap)
       IN IF directError
          THEN /\ tn' = [tn EXCEPT ![k] = [tn[k] EXCEPT !.pc = "done", !.status = 500]]
               /\ UNCHANGED balance
          ELSE /\ balance' = new
               /\ tn' = [tn EXCEPT ![k] =
                    [tn[k] EXCEPT !.pc = "insertTx", !.via = "fallback", !.snap = 0,
                                  !.delta = BalanceDelta(new, balance, tn[k].userId)]]
  /\ UNCHANGED <<balance0, transactions, payments, req, sg, cp, clock>>

\* the row a test call inserts (its provider column is left out, as
\* created_at is)
TestTxRow(r, t) ==
  [user_id |-> r.userId, amount |-> r.amount, type |-> "deposit", status |-> "completed",
   payment_id |-> <<"test_">> \o DateNow(t), reference |-> <<"test_">> \o DateNow(t)]

\* lines 813-853, 925-941: re-read of the balance, insert of the row (an
\* error is logged or not looked at), answer 200
TestInsertTx(k) ==
  /\ tn[k].pc = "insertTx"
  /\ \E transactionError \in BOOLEAN :
       transactions' = IF transactionError THEN transactions
                       ELSE InsertTransaction(transactions, TestTxRow(tn[k], clock))
  /\ tn' = [tn EXCEPT ![k] = [tn[k] EXCEPT !.pc = "done", !.status = 200]]
  /\ UNCHANGED <<balance, balance0, payments, req, sg, cp, clock>>

-----------------------------------------------------------------------------
(* POST /api/payfast/create-payment                                        *)

\* Number(v): undefined is NaN, null and false are 0, true is 1; a string is
\* trimmed, the empty string is 0, a run of digits with an optional sign is
\* its value and any other text is NaN
ToNumber(v) ==
  LET t == Trim(String(v))
      neg == t # <<>> /\ Head(t) = "-"
      u == IF t # <<>> /\ Head(t) \in {"-", "+"} THEN Tail(t) ELSE t
  IN CASE v = Undefined -> NaN
       [] v = Null -> Num(0)
       [] v = True -> Num(1)
       [] v = False -> Num(0)
       [] t = <<>> -> Num(0)
       [] u # <<>> /\ Range(u) \subseteq Digits ->
            Num(IF neg THEN 0 - DigitsValue(u, 0) ELSE DigitsValue(u, 0))
       [] OTHER -> NaN

\* !v
Falsy(v) ==
  \/ v \in {Undefined, Null, False, <<>>}
  \/ IsNumberValue(v) /\ FalsyNum(ToNumber(v))

\* isNaN(v)
isNaN(v) == ToNumber(v).nan

\* v <= 0
AtMostZero(v) == ~ToNumber(v).nan /\ ToNumber(v).n <= 0

\* x.toFixed(2) for NaN and for whole numbers
toFixed2(x) == IF x.nan THEN <<"NaN">> ELSE NumberToString(x.n) \o <<".", "0", "0">>

\* process.env
MerchantId == <<"mid">>

MerchantKey == <<"mkey">>

AppBaseUrl == <<"https", ":", "/", "/", "app">>

PayfastBaseUrl == <<"https", ":", "/", "/", "payfast", "/", "process">>

NumPay == 2

PayReqs == 1..NumPay

\* amount of the JSON body: not sent, the strings "7", "0", "-1" and "a",
\* the number 100, true
PayAmounts ==
  {Undefined, <<"7">>, <<"0">>, <<"-", "1">>, <<"a">>, NumberValue(<<"1", "0", "0">>), True}

\* userId of the JSON body
PayUsers == {<<"u1">>, Undefined}

\* more userId strings: blank, and with a space inside
UrlUsers == {<<"u1">>, <<" ">>, <<"u", " ", "1">>}

\* line 366
FormatAmount(amount) == Trim(String(toFixed2(parseFloat(amount))))

\* line 357
NewPaymentId(t) == <<"pay_">> \o DateNow(t)

CreatedIds == {NewPaymentId(t) : t \in 0..MaxClock}

\* lines 359-369
PaymentData(amount, userId, paymentId) ==
  <<<<<<"merchant_id">>, Trim(String(MerchantId))>>,
    <<<<"merchant_key">>, Trim(String(MerchantKey))>>,
    <<<<"return_url">>, Trim(AppBaseUrl \o <<"/", "payment", "/", "success">>)>>,
    <<<<"cancel_url">>, Trim(AppBaseUrl \o <<"/", "payment", "/", "cancel">>)>>,
    <<<<"notify_url">>, Trim(AppBaseUrl \o <<"/", "payfast", "/", "notify">>)>>,
    <<<<"m_payment_id">>, Trim(String(paymentId))>>,
    <<<<"amount">>, FormatAmount(amount)>>,
    <<<<"item_name">>, Trim(<<"Savings", " ", "Deposit">>)>>,
    <<<<"custom_str1">>, Trim(String(userId))>>>>

\* a URL that lists the pairs last to first, the signature in front
PayfastUrlReversed(data) ==
  LET finalPairs == [i \in 1..Len(data) |->
                       encodeURIComponent(data[Len(data) + 1 - i][1]) \o <<"=">>
                         \o encodeURIComponent(data[Len(data) + 1 - i][2])]
  IN PayfastBaseUrl \o <<"?">> \o Join(finalPairs, "&")

\* lines 378-383
PayfastUrl(data) ==
  LET finalPairs == [i \in 1..Len(data) |->
                       encodeURIComponent(data[i][1]) \o <<"=">> \o encodeURIComponent(data[i][2])]
  IN PayfastBaseUrl \o <<"?">> \o Join(finalPairs, "&")

\* lines 371-383: what the handler builds for a body it accepts at clock
\* reading t: the signed string, the signature and the redirect URL
BuildPayment(amount, userId, t) ==
  LET data == PaymentData(amount, userId, NewPaymentId(t))
      signed == generatePayFastSignature(ObjectFromEntries(data), Trim(String(EnvPassphrase)))
      withSignature == ObjSet(ObjectFromEntries(data), <<"signature">>, signed.signature)
  IN [paramString |-> signed.paramString, signature |-> signed.signature,
      paramOrder |-> signed.paramOrder, dataKeys |-> ObjectKeys(ObjectFromEntries(data)),
      url |-> PayfastUrl(withSignature)]

Built ==
  [a \in PayAmounts, u \in PayUsers \cup UrlUsers, t \in 0..MaxClock |-> BuildPayment(a, u, t)]

\* payfastUrl of a request past its validation
UrlOf(r) == Built[r.amount, r.userId, r.readAt].url

IdlePay ==
  [pc |-> "idle", amount |-> Undefined, userId |-> Undefined, readAt |-> 0, status |-> 0,
   paymentId |-> <<>>, insert |-> "none",
   sent |-> [url |-> Undefined, payment_id |-> Undefined]]

\* a handler that answers as soon as the URL is built
AfterBuildRespond(r) ==
  [r EXCEPT !.pc = "done", !.status = 200, !.sent = [url |-> UrlOf(r), payment_id |-> r.paymentId]]

\* lines 385-388: on to the awaited insert
AfterBuild(r) == [r EXCEPT !.pc = "insert"]

\* lines 338-357: validation and the payment id
CreatePayment(amount, userId, t) ==
  LET r == [IdlePay EXCEPT !.amount = amount, !.userId = userId]
  IN IF Falsy(amount) \/ Falsy(userId) THEN [r EXCEPT !.pc = "done", !.status = 400]
     ELSE IF isNaN(amount) \/ AtMostZero(amount) THEN [r EXCEPT !.pc = "done", !.status = 400]
     ELSE AfterBuild([r EXCEPT !.readAt = t, !.paymentId = NewPaymentId(t)])

\* the handler's synchronous part for each body and clock reading
Created ==
  [a \in PayAmounts, u \in PayUsers \cup UrlUsers, t \in 0..MaxClock |-> CreatePayment(a, u, t)]

CreateReceive(k) ==
  /\ cp[k].pc = "idle"
  /\ \E a \in PayAmounts, u \in PayUsers : cp' = [cp EXCEPT ![k] = Created[a, u, clock]]
  /\ UNCHANGED <<balance, balance0, transactions, payments, req, sg, tn, clock>>

\* the same handler, the userId drawn from UrlUsers
CreateReceiveAny(k) ==
  /\ cp[k].pc = "idle"
  /\ \E a \in PayAmounts, u \in UrlUsers : cp' = [cp EXCEPT ![k] = Created[a, u, clock]]
  /\ UNCHANGED <<balance, balance0, transactions, payments, req, sg, tn, clock>>

InsertOutcomes == {"ok", "error", "threw"}

\* an insert that resets the entry of its payment_id to pending
InsertPaymentOverwrite(pays, paymentId) ==
  [p \in DOMAIN pays |-> IF p = paymentId THEN "pending" ELSE pays[p]]

\* .from("payments").insert([{ payment_id, user_id, amount, status: "pending" }]);
\* payments keeps the status of the rows of each payment_id, the rows of one
\* payment_id are told apart by the requests that stored them
InsertPayment(pays, paymentId) ==
  [p \in DOMAIN pays |-> IF p = paymentId /\ pays[p] = "none" THEN "pending" ELSE pays[p]]

\* a handler that answers 500 when the insert fails
AfterInsertStrict(r, outcome) ==
  IF outcome = "ok"
  THEN [r EXCEPT !.pc = "done", !.status = 200, !.insert = outcome,
                 !.sent = [url |-> UrlOf(r), payment_id |-> r.paymentId]]
  ELSE [r EXCEPT !.pc = "done", !.status = 500, !.insert = outcome]

\* lines 399-413: the error is logged, the exception caught, res.json sent
AfterInsert(r, outcome) ==
  [r EXCEPT !.pc = "done", !.status = 200, !.insert = outcome,
            !.sent = [url |-> UrlOf(r), payment_id |-> r.paymentId]]

\* lines 387-413
CreateInsert(k) ==
  /\ cp[k].pc = "insert"
  /\ \E outcome \in InsertOutcomes :
       /\ payments' = IF outcome = "ok" THEN InsertPayment(payments, cp[k].paymentId) ELSE payments
       /\ cp' = [cp EXCEPT ![k] = AfterInsert(cp[k], outcome)]
  /\ UNCHANGED <<balance, balance0, transactions, req, sg, tn, clock>>

-----------------------------------------------------------------------------
(* Sign and verify as functions: a sender signs an ordered field mapping   *)
(* with a secret, the notify handler's check verifies the posted body      *)

MaxFields == 2

SigKeys == {<<"item_name">>, <<"amount_gross">>, <<"7">>}

SigValues == {<<>>, <<"a">>, <<"a", " ", "b">>, <<"a", "+">>}

Secrets == {Undefined, <<"s1">>, <<"s1", " ">>, <<"s2">>}

MutTokens == {"#~", "&"}

\* the orders in which a caller may add up to MaxFields fields to an object
Insertions ==
  UNION {{s \in [1..n -> SigKeys \X SigValues] :
            \A i, j \in 1..n : i # j => s[i][1] # s[j][1]} : n \in 0..MaxFields}

Sign(ins, secret) == generatePayFastSignature(ObjectFromEntries(ins), secret)

BodyWith(signed, signature) == signed.paramString \o <<"&", "signature", "=">> \o signature

SgOff ==
  [phase |-> "off", ins |-> <<>>, secret |-> Undefined, mode |-> "none", ins2 |-> <<>>,
   secret2 |-> Undefined, signed |-> Sign(<<>>, Undefined), signature |-> <<>>,
   verdict |-> "none"]

SigStart(ins, secret) ==
  [SgOff EXCEPT !.phase = "input", !.ins = ins, !.secret = secret, !.ins2 = ins,
                !.secret2 = secret, !.signed = Sign(ins, secret),
                !.signature = Sign(ins, secret).signature]

SigVerify(s) ==
  [s EXCEPT !.phase = "done",
            !.verdict = VerifyNotification(BodyWith(s.signed, s.signature), s.secret2).verdict]

\* the signed body posted back unchanged
SigRoundTrip ==
  /\ sg.phase = "input"
  /\ sg' = SigVerify([sg EXCEPT !.mode = "roundtrip"])
  /\ UNCHANGED <<balance, balance0, transactions, payments, req, tn, cp, clock>>

\* the same pairs signed in another insertion order, checked against the
\* fields in the original order
SigReordered ==
  /\ sg.phase = "input"
  /\ \E ins2 \in Insertions :
       /\ ins2 # sg.ins
       /\ Len(ins2) = Len(sg.ins)
       /\ Range(ins2) = Range(sg.ins)
       /\ sg' = SigVerify([sg EXCEPT !.mode = "reordered", !.ins2 = ins2,
                                     !.signature = Sign(ins2, sg.secret).signature])
  /\ UNCHANGED <<balance, balance0, transactions, payments, req, tn, cp, clock>>

\* the verifier configured with another secret
SigOtherSecret ==
  /\ sg.phase = "input"
  /\ \E secret2 \in Secrets \ {sg.secret} :
       sg' = SigVerify([sg EXCEPT !.mode = "othersecret", !.secret2 = secret2])
  /\ UNCHANGED <<balance, balance0, transactions, payments, req, tn, cp, clock>>

\* one character of the signature replaced
SigMutated ==
  /\ sg.phase = "input"
  /\ \E i \in 1..Len(sg.signature), t \in MutTokens :
       /\ t # sg.signature[i]
       /\ sg' = SigVerify([sg EXCEPT !.mode = "mutated",
                                     !.signature = [sg.signature EXCEPT ![i] = t]])
  /\ UNCHANGED <<balance, balance0, transactions, payments, req, tn, cp, clock>>

\* values the builder drops
EmptyValues == {<<>>, Null, Undefined}

\* a field with an empty value put in at any position
SigEmptyAdded ==
  /\ sg.phase = "input"
  /\ \E k \in SigKeys, e \in EmptyValues, at \in 1..(Len(sg.ins) + 1) :
       /\ \A i \in 1..Len(sg.ins) : sg.ins[i][1] # k
       /\ LET ins2 == InsertAt(sg.ins, at, <<k, e>>)
          IN sg' = SigVerify([sg EXCEPT !.mode = "emptyadded", !.ins2 = ins2,
                                        !.signature = Sign(ins2, sg.secret).signature])
  /\ UNCHANGED <<balance, balance0, transactions, payments, req, tn, cp, clock>>

\* the fields with an empty value taken out
SigEmptyDropped ==
  /\ sg.phase = "input"
  /\ \E i \in 1..Len(sg.ins) : sg.ins[i][2] = <<>>
  /\ LET ins2 == SelectSeq(sg.ins, LAMBDA p : p[2] # <<>>)
     IN sg' = SigVerify([sg EXCEPT !.mode = "emptydropped", !.ins2 = ins2,
                                   !.signature = Sign(ins2, sg.secret).signature])
  /\ UNCHANGED <<balance, balance0, transactions, payments, req, tn, cp, clock>>

\* one value padded with a space in front or behind
SigPadded ==
  /\ sg.phase = "input"
  /\ \E i \in 1..Len(sg.ins), front \in BOOLEAN :
       LET v == sg.ins[i][2]
           ins2 == [sg.ins EXCEPT ![i] = <<sg.ins[i][1], IF front THEN <<" ">> \o v ELSE v \o <<" ">>>>]
       IN sg' = SigVerify([sg EXCEPT !.mode = "padded", !.ins2 = ins2,
                                     !.signature = Sign(ins2, sg.secret).signature])
  /\ UNCHANGED <<balance, balance0, transactions, payments, req, tn, cp, clock>>

SigInit ==
  /\ balance = [u \in UserIds |-> InitBalance]
  /\ balance0 = balance
  /\ transactions = <<>>
  /\ payments = [p \in PaymentIds \cup CreatedIds |-> "none"]
  /\ req = [i \in Reqs |-> IdleReq]
  /\ \E ins \in Insertions, secret \in Secrets : sg = SigStart(ins, secret)
  /\ tn = [k \in TestReqs |-> IdleTest]
  /\ cp = [k \in PayReqs |-> IdlePay]
  /\ clock = 0

SigNext ==
  \/ SigRoundTrip \/ SigReordered \/ SigOtherSecret \/ SigMutated
  \/ SigEmptyAdded \/ SigEmptyDropped \/ SigPadded

SigSpec == SigInit /\ [][SigNext]_vars

-----------------------------------------------------------------------------
(* Properties of sign and verify, checked under SigSpec                    *)

SigDone(mode) == sg.phase = "done" /\ sg.mode = mode

NonEmptyValues(ins) == \A i \in 1..Len(ins) : ins[i][2] # <<>>

\* C2: every mapping with non-empty string values, written in the builder's
\* encoding with its signature appended, passes the handler's check
C2_RoundTripPasses ==
  (SigDone("roundtrip") /\ NonEmptyValues(sg.ins)) => sg.verdict = "pass"

Position(ins, k) == CHOOSE i \in 1..Len(ins) : ins[i][1] = k

\* two fields that are signed (non-empty value) and whose keys are not
\* integer-like stand in opposite orders in ins and ins2
SwapsSignedFields(ins, ins2) ==
  \E i, j \in 1..Len(ins) :
    /\ i < j
    /\ ins[i][2] # <<>> /\ ins[j][2] # <<>>
    /\ ~IsArrayIndex(ins[i][1]) /\ ~IsArrayIndex(ins[j][1])
    /\ Position(ins2, ins[i][1]) > Position(ins2, ins[j][1])

C5_AnySecretOrSignatureChangeFails ==
  (SigDone("othersecret") \/ SigDone("mutated")) => sg.verdict # "pass"

\* C5 amended: the check fails for any one-character change of the signature
\* and for any other secret whose trimmed text differs
C5_TrimmedSecretOrSignatureChangeFails ==
  /\ SigDone("mutated") => sg.verdict # "pass"
  /\ (SigDone("othersecret") /\ Trim(String(sg.secret)) # Trim(String(sg.secret2)))
       => sg.verdict = "badsig"

C5_Witness ==
  /\ SigDone("othersecret")
  /\ sg.secret = <<"s1">> /\ sg.secret2 = <<"s2">>
  /\ sg.ins # <<>>
  /\ sg.verdict = "badsig"
  /\ VerifyNotification(BodyWith(sg.signed, sg.signature), sg.secret).verdict = "pass"

\* C6: with no passphrase configured the hashed string is the bare parameter
\* string, without a passphrase= segment
C6_NoPassphraseSegment ==
  (sg.phase # "off" /\ sg.secret = Undefined) => sg.signed.stringToHash = sg.signed.paramString

-----------------------------------------------------------------------------
(* Properties of the notify handler, checked under Spec                    *)

Started(r) == r.pc # "idle"

Done(r) == r.pc = "done"

RejectedUntouched(r) == Done(r) /\ r.status = 400 /\ r.calls = <<>>

\* C1: a notification whose signature differs from the recomputed one (or
\* that has none) is answered 400 and makes no store call at all
C1_BadSignatureRejected ==
  \A i \in Reqs : (Started(req[i]) /\ ~req[i].sigValid) => RejectedUntouched(req[i])

C1_Witness ==
  \E i, j \in Reqs :
    /\ req[i].note.tamper = "nosig" /\ RejectedUntouched(req[i])
    /\ req[j].note.tamper = "sigmut" /\ RejectedUntouched(req[j])

\* the amount_gross value the handler reads from each body, trimmed
ReadAmount ==
  [n \in Notifications |-> Trim(ObjGet(ParseBody(BodyOf(n)).params, <<"amount_gross">>))]

\* the amount each notification was signed with
SignedAmount == [n \in Notifications |-> parseFloat(n.amount)]

\* C3 as stated: amount_gross changed in any way after signing, signature
\* unchanged: rejected, no store call
C3_AnyAmountChangeRejected ==
  \A i \in Reqs :
    (Started(req[i]) /\ req[i].note.tamper \in AmountTampers) => RejectedUntouched(req[i])

\* C3 amended: rejected with no store call when the value the handler reads
\* differs, after trimming, from the signed value; otherwise accepted with
\* the signed amount
C3_ChangedAmountRejected ==
  \A i \in Reqs :
    LET n == req[i].note
    IN (Started(req[i]) /\ n.tamper \in AmountTampers)
         => IF ReadAmount[n] # Trim(n.amount)
            THEN RejectedUntouched(req[i])
            ELSE /\ req[i].sigValid
                 /\ req[i].amount = SignedAmount[n].n
                 /\ req[i].via # "none" => req[i].userId = n.user

C3_Witness ==
  \E i, j \in Reqs :
    /\ req[i].note.tamper = "amount_other" /\ RejectedUntouched(req[i])
    /\ req[j].note.tamper = "amount_pad" /\ Done(req[j]) /\ req[j].status = 200
    /\ req[j].via = "rpc" /\ req[j].delta = 1

ValidComplete(r) == r.sigValid /\ r.note.status = <<"COMPLETE">>

NotifiedAmount(r) == SignedAmount[r.note]

Applied(r) ==
  /\ r.status = 200
  /\ r.delta = NotifiedAmount(r).n
  /\ ~r.others
  /\ r.txAdded = 1

\* C7 as stated: complete, valid signature, known user, every store
\* operation succeeding: balance up by the amount, one transaction, 200
C7_CompleteApplied ==
  \A i \in Reqs :
    (Done(req[i]) /\ ValidComplete(req[i]) /\ req[i].note.user \in UserIds /\ req[i].failed = {})
      => Applied(req[i])

\* C7 amended: the same for an amount that parses to a number other than zero
C7_CompleteNonZeroApplied ==
  \A i \in Reqs :
    (/\ Done(req[i]) /\ ValidComplete(req[i]) /\ req[i].note.user \in UserIds
     /\ req[i].failed = {} /\ ~FalsyNum(NotifiedAmount(req[i])))
      => Applied(req[i])

C7_Witness ==
  \E i \in Reqs :
    /\ Done(req[i]) /\ ValidComplete(req[i]) /\ req[i].failed = {}
    /\ req[i].note.amount = <<"2">> /\ req[i].delta = 2 /\ req[i].txAdded = 1
    /\ req[i].status = 200
    /\ balance[<<"u1">>] = balance0[<<"u1">>] + 2
    /\ balance[<<"u2">>] = balance0[<<"u2">>]

NoOtherWriter(u, i, j) ==
  \A k \in Reqs \ {i, j} : req[k].via = "none" \/ req[k].userId # u

BothViaRpc(i, j) ==
  /\ i # j
  /\ req[i].via = "rpc" /\ req[j].via = "rpc"
  /\ req[i].userId = req[j].userId
  /\ NoOtherWriter(req[i].userId, i, j)

\* C8: two notifications for one user, both applied by increment_balance:
\* from the second increment on, and so when both handlers are done, the
\* balance is the initial one plus both amounts, whatever the interleaving
C8_AtomicPathSums ==
  \A i, j \in Reqs :
    BothViaRpc(i, j)
      => balance[req[i].userId] = balance0[req[i].userId] + req[i].amount + req[j].amount

\* both handlers are in flight at once, each past its increment; the same
\* balance is there when both are done
C8_InFlight ==
  \E i, j \in Reqs :
    /\ BothViaRpc(i, j)
    /\ req[i].pc = "insertTx" /\ req[j].pc = "insertTx"
    /\ req[i].amount = 1 /\ req[j].amount = 2
    /\ balance[<<"u1">>] = balance0[<<"u1">>] + 3

C8_Witness ==
  \E i, j \in Reqs :
    /\ BothViaRpc(i, j) /\ Done(req[i]) /\ Done(req[j])
    /\ req[i].status = 200 /\ req[j].status = 200
    /\ req[i].amount = 1 /\ req[j].amount = 2
    /\ balance[<<"u1">>] = balance0[<<"u1">>] + 3

SameDelivery(i, j) ==
  /\ i # j /\ Done(req[i]) /\ Done(req[j])
  /\ req[i].note = req[j].note
  /\ req[i].note.tamper = "none"
  /\ req[i].status = 200 /\ req[j].status = 200
  /\ req[i].via # "none" /\ req[j].via # "none"
  /\ NoOtherWriter(req[i].userId, i, j)

UnknownUser(r) == r.note.user # <<>> /\ r.note.user \notin UserIds

\* C10: a valid complete notification naming a user the lookup does not
\* find is answered 400; the only store call made for it is the lookup
C10_UnknownUserRejected ==
  \A i \in Reqs :
    (Started(req[i]) /\ ValidComplete(req[i]) /\ UnknownUser(req[i]))
      => /\ Range(req[i].calls) \subseteq {"select_user"}
         /\ req[i].via = "none"
         /\ Done(req[i]) => req[i].status = 400

C10_Witness ==
  \E i \in Reqs :
    /\ ValidComplete(req[i]) /\ UnknownUser(req[i])
    /\ Done(req[i]) /\ req[i].status = 400 /\ req[i].calls = <<"select_user">>
    /\ balance = balance0 /\ transactions = <<>>

AckedComplete(r) == Done(r) /\ r.status = 200 /\ ValidComplete(r)

BothViaFallback(i, j) ==
  /\ i # j /\ Done(req[i]) /\ Done(req[j])
  /\ req[i].status = 200 /\ req[j].status = 200
  /\ req[i].via = "fallback" /\ req[j].via = "fallback"
  /\ req[i].userId = req[j].userId
  /\ NoOtherWriter(req[i].userId, i, j)

\* C12: two notifications for one user both applied by the fallback write
\* leave the balance at the initial one plus both amounts or plus one of
\* them alone; the lost update (one amount alone) is reached
C12_FallbackOutcomes ==
  \A i, j \in Reqs :
    BothViaFallback(i, j)
      => LET b == balance0[req[i].userId]
         IN balance[req[i].userId] \in
              {b + req[i].amount, b + req[j].amount, b + req[i].amount + req[j].amount}

C12_Witness ==
  \E i, j \in Reqs :
    /\ BothViaFallback(i, j)
    /\ ValidComplete(req[i]) /\ ValidComplete(req[j])
    /\ req[i].amount = 1 /\ req[j].amount = 2
    /\ balance[req[i].userId] < balance0[req[i].userId] + 3

Quiescent == \A i \in Reqs : req[i].pc \in {"idle", "done"}

\* C13: a complete notification answered 200 has had exactly one transaction
\* row inserted for it, also when store writes fail; with no handler in
\* flight the rows are as many as the complete notifications answered 200
C13_OneRecordPerAcknowledged ==
  /\ \A i \in Reqs : AckedComplete(req[i]) => req[i].txAdded = 1
  /\ Quiescent => BagSize(transactions) = Cardinality({i \in Reqs : AckedComplete(req[i])})

\* C14: no step of any endpoint makes a user's balance lower than it was
C14_BalanceNeverDecreases ==
  [][\A u \in UserIds : balance'[u] >= balance[u]]_vars

\* the test endpoints compare no signature
TestVerified(r) == FALSE

\* C15: a request that has changed a balance has compared a signature
\* before, and the comparison matched
C15_MutationsFollowVerification ==
  /\ \A i \in Reqs : req[i].via # "none" => req[i].sigValid
  /\ \A k \in TestReqs : tn[k].via # "none" => TestVerified(tn[k])

\* an amount as the caller means it: a number, or text made of an optional
\* sign and decimal digits
IsDecimalText(s) ==
  LET u == IF s # <<>> /\ Head(s) \in {"-", "+"} THEN Tail(s) ELSE s
  IN u # <<>> /\ Range(u) \subseteq Digits

NumericAmount(v) ==
  /\ v \notin {Undefined, Null, True, False}
  /\ IsDecimalText(String(v))

\* missing, non-numeric, zero or negative
InvalidAmount(v) == ~NumericAmount(v) \/ parseFloat(v).n <= 0

Accepted(r) == r.paymentId # <<>>

\* C16: a create-payment request whose amount is missing, non-numeric, zero
\* or negative, or whose userId is missing, is answered 400, is sent no
\* redirect URL and stores no pending payment
C16_InvalidRequestsRejected ==
  \A k \in PayReqs :
    cp[k].pc = "done" /\ (InvalidAmount(cp[k].amount) \/ cp[k].userId = Undefined)
      => /\ cp[k].status = 400
         /\ cp[k].sent.url = Undefined
         /\ cp[k].insert = "none"

\* the part of C16 the handler keeps: the missing, the textual non-numeric,
\* the zero and the negative amounts and the missing userId
C16_TextualInvalidRejected ==
  \A k \in PayReqs :
    cp[k].pc # "idle" /\ (cp[k].amount \in {Undefined, <<"0">>, <<"-", "1">>, <<"a">>}
                           \/ cp[k].userId = Undefined)
      => /\ cp[k].pc = "done" /\ cp[k].status = 400
         /\ cp[k].sent.url = Undefined /\ cp[k].insert = "none"

\* the amount a receiver reads out of a query string: the decoded text
\* between "amount=" and the next "&"
AmountIn(query) ==
  LET i == CHOOSE i \in 1..(Len(query) - 1) :
             /\ query[i] = "amount" /\ query[i + 1] = "="
             /\ i > 1 /\ query[i - 1] = "&"
      j == CHOOSE j \in (i + 2)..(Len(query) + 1) :
             /\ j = Len(query) + 1 \/ query[j] = "&"
             /\ \A m \in (i + 2)..(j - 1) : query[m] # "&"
  IN decodeURIComponent(SubSeq(query, i + 2, j - 1)).value

\* the amount inside the signed parameter string and the amount inside the
\* redirect URL, for each body and clock reading
SignedAmounts ==
  [a \in PayAmounts, u \in PayUsers \cup UrlUsers, t \in 0..MaxClock |->
     AmountIn(Built[a, u, t].paramString)]

UrlAmounts ==
  [a \in PayAmounts, u \in PayUsers \cup UrlUsers, t \in 0..MaxClock |->
     AmountIn(Built[a, u, t].url)]

\* digits, a point and two digits
IsTwoDecimals(s) ==
  /\ Len(s) >= 4
  /\ s[Len(s) - 2] = "."
  /\ Range(SubSeq(s, 1, Len(s) - 3)) \subseteq Digits
  /\ {s[Len(s) - 1], s[Len(s)]} \subseteq Digits

\* the signature of the payment data with the amount as text t
SignatureWithAmount(t) ==
  generatePayFastSignature(
    ObjSet(ObjectFromEntries(PaymentData(<<"7">>, <<"u1">>, NewPaymentId(0))), <<"amount">>, t),
    Trim(String(EnvPassphrase))).signature

\* C17: for every request create-payment accepts, the amount inside the
\* signed parameter string is the amount inside the redirect URL and has
\* exactly two decimals, 100 is signed and sent as "100.00", and the
\* signatures over "100" and over "100.00" differ
C17_AmountFormattedBeforeSigning ==
  /\ \A k \in PayReqs :
       Accepted(cp[k]) =>
         /\ SignedAmounts[cp[k].amount, cp[k].userId, cp[k].readAt]
              = UrlAmounts[cp[k].amount, cp[k].userId, cp[k].readAt]
         /\ IsTwoDecimals(SignedAmounts[cp[k].amount, cp[k].userId, cp[k].readAt])
         /\ cp[k].amount = NumberValue(<<"1", "0", "0">>) =>
              SignedAmounts[cp[k].amount, cp[k].userId, cp[k].readAt]
                = <<"1", "0", "0", ".", "0", "0">>
  /\ SignatureWithAmount(<<"1", "0", "0">>) # SignatureWithAmount(<<"1", "0", "0", ".", "0", "0">>)

\* the part of C17 the handler keeps: one formatted amount is signed and
\* sent, with two decimals whenever parseFloat reads a number
C17_SameAmountSignedAndSent ==
  /\ \A k \in PayReqs :
       Accepted(cp[k]) =>
         /\ SignedAmounts[cp[k].amount, cp[k].userId, cp[k].readAt]
              = UrlAmounts[cp[k].amount, cp[k].userId, cp[k].readAt]
         /\ SignedAmounts[cp[k].amount, cp[k].userId, cp[k].readAt] = FormatAmount(cp[k].amount)
         /\ ~parseFloat(cp[k].amount).nan =>
              IsTwoDecimals(SignedAmounts[cp[k].amount, cp[k].userId, cp[k].readAt])
         /\ cp[k].amount = NumberValue(<<"1", "0", "0">>) =>
              SignedAmounts[cp[k].amount, cp[k].userId, cp[k].readAt]
                = <<"1", "0", "0", ".", "0", "0">>
  /\ SignatureWithAmount(<<"1", "0", "0">>) # SignatureWithAmount(<<"1", "0", "0", ".", "0", "0">>)

\* C18: two different create-payment requests that were accepted have
\* different payment identifiers
C18_DistinctPaymentIds ==
  \A j, k \in PayReqs :
    j # k /\ Accepted(cp[j]) /\ Accepted(cp[k]) => cp[j].paymentId # cp[k].paymentId

\* the part of C18 the handler keeps: requests accepted at different clock
\* readings have different payment identifiers
C18_DistinctAcrossReadings ==
  \A j, k \in PayReqs :
    Accepted(cp[j]) /\ Accepted(cp[k]) /\ cp[j].readAt # cp[k].readAt
      => cp[j].paymentId # cp[k].paymentId

\* C19: a create-payment request that has been sent the redirect URL has
\* had its insert of the pending payment attempted, and that attempt is over
C19_InsertAttemptedBeforeUrl ==
  \A k \in PayReqs :
    cp[k].sent.url # Undefined \/ cp[k].status = 200 => cp[k].insert \in InsertOutcomes

\* a caller holds the URL and the pending payment of its id is stored
C19_Witness ==
  \E k \in PayReqs :
    /\ cp[k].sent.url = UrlOf(cp[k])
    /\ cp[k].insert = "ok"
    /\ payments[cp[k].paymentId] = "pending"

\* C20: a create-payment request that passed validation is answered 200 with
\* its redirect URL and its payment identifier whatever became of the insert
\* of the pending payment, also when the store returned an error or threw
C20_InsertFailureNotFatal ==
  \A k \in PayReqs :
    cp[k].pc = "done" /\ Accepted(cp[k]) =>
      /\ cp[k].status = 200
      /\ cp[k].sent.url = UrlOf(cp[k])
      /\ cp[k].sent.payment_id = cp[k].paymentId

\* one request whose insert returned an error and one whose insert threw,
\* both answered, nothing stored
C20_Witness ==
  \E j, k \in PayReqs :
    /\ cp[j].pc = "done" /\ cp[j].insert = "error" /\ cp[j].status = 200
    /\ cp[k].pc = "done" /\ cp[k].insert = "threw" /\ cp[k].status = 200
    /\ \A p \in CreatedIds : payments[p] = "none"

\* C21: a notification with a valid signature whose payment_status is not
\* COMPLETE is answered 200 by the step that receives it, and the handler
\* makes no store call for it: no balance, transaction or payment changes
C21_NonCompleteIgnored ==
  \A i \in Reqs :
    (Started(req[i]) /\ req[i].sigValid /\ req[i].note.status # <<"COMPLETE">>)
      => /\ Done(req[i]) /\ req[i].status = 200
         /\ req[i].calls = <<>>
         /\ req[i].via = "none" /\ req[i].delta = 0 /\ req[i].txAdded = 0

\* a failed payment is acknowledged and the store is as it was at the start,
\* the payment entry still pending
C21_Witness ==
  \E i \in Reqs :
    /\ req[i].sigValid /\ req[i].note.status = <<"FAILED">>
    /\ Done(req[i]) /\ req[i].status = 200 /\ req[i].calls = <<>>
    /\ balance = balance0 /\ transactions = <<>>
    /\ payments[req[i].note.pid] = "pending"

\* whether the parse of each notification's body throws
BodyThrows == [n \in Notifications |-> ParseBody(BodyOf(n)).threw]

ExpectedStatus(r) ==
  CASE BodyThrows[r.note] -> 400
    [] ~r.sigValid -> 400
    [] r.note.status # <<"COMPLETE">> -> 200
    [] r.calls = <<>> -> 400
    [] "exception" \in r.failed -> 500
    [] "select_user" \in r.failed -> 400
    [] {"rpc", "update_balance"} \subseteq r.failed -> 500
    [] OTHER -> 200

\* C23: every notification the handler has received is answered in the end,
\* whatever its store calls return or throw; an answered request is never
\* answered again; the status is the one its terminal state calls for
C23_AlwaysAnsweredOnce ==
  /\ \A i \in Reqs : Started(req[i]) ~> Done(req[i])
  /\ [][\A i \in Reqs : Done(req[i]) => req'[i] = req[i]]_vars
  /\ [](\A i \in Reqs : Done(req[i]) => req[i].status = ExpectedStatus(req[i]))

\* the terminal states side by side: an exception answered 500 and an
\* applied notification answered 200
C23_Witness ==
  \E i, j \in Reqs :
    /\ Done(req[i]) /\ "exception" \in req[i].failed /\ req[i].status = 500
    /\ Done(req[j]) /\ req[j].via # "none" /\ req[j].status = 200

\* the keys of a query string, in the order they are listed: a key is the
\* token before "=" at the start or after "?" or "&"
QueryKeys(query) ==
  LET at == SelectSeq([i \in 1..Len(query) |-> i],
                      LAMBDA i : /\ i < Len(query) /\ query[i + 1] = "="
                                 /\ i = 1 \/ query[i - 1] \in {"?", "&"})
  IN [j \in 1..Len(at) |-> <<query[at[j]]>>]

\* the text between "key=" and the next "&", as it is written
RawValueIn(query, key) ==
  LET i == CHOOSE i \in 1..(Len(query) - 1) :
             /\ <<query[i]>> = key /\ query[i + 1] = "="
             /\ i = 1 \/ query[i - 1] \in {"?", "&"}
      j == CHOOSE j \in (i + 2)..(Len(query) + 1) :
             /\ j = Len(query) + 1 \/ query[j] = "&"
             /\ \A m \in (i + 2)..(j - 1) : query[m] # "&"
  IN SubSeq(query, i + 2, j - 1)

\* what a receiver of the redirect finds in its query: the keys in order, the
\* signature as written, and the signature of the other fields as decoded
ReadUrl(b) ==
  LET keys == QueryKeys(b.url)
      fields == SelectSeq(keys, LAMBDA k : k # <<"signature">>)
      values == [j \in 1..Len(fields) |->
                   <<fields[j], decodeURIComponent(RawValueIn(b.url, fields[j])).value>>]
  IN [keys |-> keys,
      signature |-> RawValueIn(b.url, <<"signature">>),
      nonEmpty |-> SelectSeq(fields, LAMBDA k : RawValueIn(b.url, k) # <<>>),
      resigned |-> generatePayFastSignature(ObjectFromEntries(values),
                                            Trim(String(EnvPassphrase))).signature]

UrlRead ==
  [a \in PayAmounts, u \in PayUsers \cup UrlUsers, t \in 0..MaxClock |-> ReadUrl(Built[a, u, t])]

BuiltFor(r) == Built[r.amount, r.userId, r.readAt]

UrlReadFor(r) == UrlRead[r.amount, r.userId, r.readAt]

QueryUnsigned(b) ==
  SubSeq(b.url, Len(PayfastBaseUrl) + 2,
         Len(b.url) - Len(<<"&", "signature", "=">> \o encodeURIComponent(b.signature)))

UrlQueries ==
  [a \in PayAmounts, u \in PayUsers \cup UrlUsers, t \in 0..MaxClock |->
     QueryUnsigned(Built[a, u, t])]

UrlQueryFor(r) == UrlQueries[r.amount, r.userId, r.readAt]

\* C25: the query string of the redirect URL, without the trailing signature
\* parameter, is the parameter string that was signed
C25_UrlEncodedAsSigned ==
  \A k \in PayReqs : Accepted(cp[k]) => UrlQueryFor(cp[k]) = BuiltFor(cp[k]).paramString

\* the part of C25 the handler keeps: when every field was signed, the two
\* strings differ only in how a space is written, %20 in the URL and + in
\* the signed string
C25_SameUpToSpaces ==
  \A k \in PayReqs :
    Accepted(cp[k]) /\ BuiltFor(cp[k]).paramOrder = BuiltFor(cp[k]).dataKeys
      => ReplacePct20(UrlQueryFor(cp[k])) = BuiltFor(cp[k]).paramString

\* a complete notification that was applied and acknowledged
AppliedAcked(r) == AckedComplete(r) /\ r.via # "none"

\* C26: once a complete notification is applied and acknowledged, the
\* payment entry of its payment identifier is not left pending (there is
\* none, or it is completed), and without an entry the notification is
\* acknowledged and credited all the same
C26_AppliedEntryCompleted ==
  \A i \in Reqs :
    AppliedAcked(req[i]) =>
      /\ payments[req[i].paymentId] # "pending"
      /\ payments[req[i].paymentId] = "none" => req[i].status = 200 /\ req[i].via # "none"

\* the part of C26 the handler keeps: the step that ends an applied
\* notification, when its update of the payment entry is carried out, leaves
\* a pending entry of that payment identifier completed and leaves every
\* other entry, the balances and the transactions as they were
C26_UpdateCompletesEntry ==
  [][\A i \in Reqs :
       (req[i].pc = "updatePayment" /\ Done(req'[i]) /\ payments' # payments)
         => /\ payments[req[i].paymentId] = "pending"
            /\ payments'[req[i].paymentId] = "completed"
            /\ \A p \in DOMAIN payments \ {req[i].paymentId} : payments'[p] = payments[p]
            /\ req'[i].status = 200
            /\ balance' = balance /\ transactions' = transactions]_vars

\* the fields of ins2 are signed as the fields of ins were: the same
\* signature and the same order of the fields that are signed
SignedAlike == 
  /\ sg.signature = sg.signed.signature
  /\ Sign(sg.ins2, sg.secret).paramOrder = sg.signed.paramOrder

\* the value that was padded
PaddedValue ==
  LET i == CHOOSE i \in 1..Len(sg.ins) : sg.ins2[i] # sg.ins[i]
  IN sg.ins[i][2]

\* C27 as stated: adding an empty-valued field at any position, removing the
\* empty-valued fields, or padding any value with a space in front or behind
\* leaves the signature and the order of the signed fields unchanged
C27_EmptyAndPaddingIgnored ==
  (SigDone("emptyadded") \/ SigDone("emptydropped") \/ SigDone("padded")) => SignedAlike

\* C27 amended: the same, the padded value being one that is not empty
C27_EmptyAndPaddingOfTextIgnored ==
  /\ (SigDone("emptyadded") \/ SigDone("emptydropped")) => SignedAlike
  /\ (SigDone("padded") /\ PaddedValue # <<>>) => SignedAlike
  /\ (SigDone("padded") /\ PaddedValue = <<>>) => ~SignedAlike

\* a null field was put in front of a signed field and nothing changed, the
\* signature still passing the check
C27_Witness ==
  /\ SigDone("emptyadded")
  /\ Len(sg.ins) >= 1 /\ NonEmptyValues(sg.ins)
  /\ sg.ins2[1][2] = Null
  /\ SignedAlike
  /\ sg.signed.paramOrder # <<>>

\* how often a request has made a store call
CallCount(r, call) == Cardinality({n \in 1..Len(r.calls) : r.calls[n] = call})

\* C28: a request makes the fallback write at most once and only after its
\* increment_balance call returned an error; a request whose increment
\* succeeded makes no fallback write; the fallback writes the balance the
\* request read at its user lookup plus the notified amount; a request
\* changes the balance in one step at most
C28_FallbackOnlyAfterRpcError ==
  /\ [](\A i \in Reqs :
          /\ CallCount(req[i], "rpc") <= 1
          /\ CallCount(req[i], "update_balance") <= 1
          /\ CallCount(req[i], "update_balance") = 1 => "rpc" \in req[i].failed
          /\ req[i].via = "rpc" => CallCount(req[i], "update_balance") = 0
          /\ req[i].via = "rpc" => req[i].delta = req[i].amount)
  /\ [][\A i \in Reqs :
          /\ (req[i].pc = "lookup" /\ req'[i].pc = "rpc")
               => req'[i].snap = balance[req[i].userId]
          /\ (req[i].pc = "rpc" /\ req'[i].pc = "fallback")
               => req'[i].snap = req[i].snap /\ balance' = balance
          /\ (req[i].pc = "fallback" /\ req'[i].via = "fallback")
               => balance'[req[i].userId] = req[i].snap + req[i].amount
          /\ (req'[i] # req[i] /\ balance' # balance)
               => req[i].via = "none" /\ req'[i].via # "none"]_vars

\* a fallback write has just put back the balance of its own lookup plus its
\* amount, over the increment another notification made in between
C28_Witness ==
  \E i, j \in Reqs :
    /\ i # j
    /\ req[i].pc = "insertTx" /\ req[i].via = "fallback"
    /\ req[i].calls = <<"select_user", "rpc", "update_balance">>
    /\ req[j].via = "rpc" /\ req[j].userId = req[i].userId
    /\ balance[req[i].userId] = balance0[req[i].userId] + req[i].amount

\* C29: a payment entry becomes completed only in the last step of a notify
\* request whose balance update (increment or fallback) has succeeded, for
\* that request's payment identifier; an entry that is completed stays
\* completed whatever create-payment and the notify handler do afterwards
C29_EntryOnlyMovesForward ==
  /\ [][\A p \in DOMAIN payments :
          (payments[p] # "completed" /\ payments'[p] = "completed")
            => \E i \in Reqs :
                 /\ req[i].pc = "updatePayment" /\ Done(req'[i])
                 /\ req[i].via \in {"rpc", "fallback"}
                 /\ req[i].paymentId = p
                 /\ payments[p] = "pending"]_vars
  /\ [][\A p \in DOMAIN payments :
          payments[p] = "completed" => payments'[p] = "completed"]_vars

\* the entry two create-payment requests stored under one payment identifier
\* is completed by a credited notification, both inserts done
C29_Witness ==
  \E i \in Reqs, j, k \in PayReqs :
    /\ j # k
    /\ cp[j].pc = "done" /\ cp[j].insert = "ok"
    /\ cp[k].pc = "done" /\ cp[k].insert = "ok"
    /\ cp[j].paymentId = cp[k].paymentId
    /\ Done(req[i]) /\ req[i].via \in {"rpc", "fallback"}
    /\ req[i].paymentId = cp[j].paymentId
    /\ payments[cp[j].paymentId] = "completed"

\* C30: a complete notification with a valid signature that names no user,
\* or whose amount parses to zero or to NaN, is answered 400 by the step
\* that receives it, before any store call
C30_MissingDataRejected ==
  \A i \in Reqs :
    (/\ Started(req[i]) /\ ValidComplete(req[i])
     /\ \/ req[i].note.user = <<>>
        \/ NotifiedAmount(req[i]).nan
        \/ NotifiedAmount(req[i]).n = 0)
      => RejectedUntouched(req[i])

\* a notification without user and one whose amount is no number, both
\* validly signed, both rejected, the store as it was at the start
C30_Witness ==
  \E i, j \in Reqs :
    /\ ValidComplete(req[i]) /\ req[i].note.user = <<>> /\ RejectedUntouched(req[i])
    /\ ValidComplete(req[j]) /\ NotifiedAmount(req[j]).nan /\ RejectedUntouched(req[j])
    /\ balance = balance0 /\ transactions = <<>>

Init ==
  /\ balance = [u \in UserIds |-> InitBalance]
  /\ balance0 = balance
  /\ transactions = <<>>
  /\ \E entry \in {"none", "pending"} :
       payments = [p \in PaymentIds \cup CreatedIds |-> IF p \in PaymentIds THEN entry ELSE "none"]
  /\ req = [i \in Reqs |-> IdleReq]
  /\ sg = SgOff
  /\ tn = [k \in TestReqs |-> IdleTest]
  /\ cp = [k \in PayReqs |-> IdlePay]
  /\ clock = 0

Next ==
  \E i \in Reqs :
    \/ Receive(i)
    \/ Lookup(i)
    \/ Rpc(i)
    \/ Fallback(i)
    \/ InsertTx(i)
    \/ UpdatePayment(i)

Spec == Init /\ [][Next]_vars

\* the notify handler with store calls that may also throw, each awaited
\* call settling in the end
Settle(i) ==
  Lookup(i) \/ Rpc(i) \/ Fallback(i) \/ InsertTx(i) \/ UpdatePayment(i) \/ StoreThrows(i)

\* two notifications in flight
LiveReqs == {1, 2}

LiveNext == \E i \in LiveReqs : Receive(i) \/ Settle(i)

LiveSpec == Init /\ [][LiveNext]_vars /\ \A i \in LiveReqs : WF_vars(Settle(i))

\* create-payment alone: NumPay requests and the clock
PayNext == Tick \/ \E k \in PayReqs : CreateReceive(k) \/ CreateInsert(k)

PaySpec == Init /\ [][PayNext]_vars

\* create-payment for one request, the userId drawn from UrlUsers
UrlNext == Tick \/ \E k \in {1} : CreateReceiveAny(k) \/ CreateInsert(k)

UrlSpec == Init /\ [][UrlNext]_vars

\* the endpoints side by side: one request of each kind in flight, at one
\* reading of the clock
ServerReqs == {1}

ServerNext ==
  \/ \E i \in ServerReqs :
       Receive(i) \/ Lookup(i) \/ Rpc(i) \/ Fallback(i) \/ InsertTx(i) \/ UpdatePayment(i)
  \/ \E k \in TestReqs :
       TestReceive(k) \/ TestLookup(k) \/ TestRpc(k) \/ TestFallback(k) \/ TestInsertTx(k)
  \/ \E k \in ServerReqs : CreateReceive(k) \/ CreateInsert(k)

ServerSpec == Init /\ [][ServerNext]_vars

\* the gateway's notifications for a payment that create-payment made at
\* clock reading 0
EntryNotes ==
  {[BaseNote EXCEPT !.pid = NewPaymentId(0)],
   [BaseNote EXCEPT !.pid = NewPaymentId(0), !.status = <<"FAILED">>]}

EntryArrival ==
  [n \in EntryNotes |->
     HandleNotify([IdleReq EXCEPT !.note = n, !.sigValid = SignatureIsValid(BodyOf(n))], BodyOf(n))]

ReceiveEntry(i) ==
  /\ req[i].pc = "idle"
  /\ \E n \in EntryNotes : req' = [req EXCEPT ![i] = EntryArrival[n]]
  /\ UNCHANGED <<balance, balance0, transactions, payments, sg, tn, cp, clock>>

\* two create-payment requests at one clock reading and one notification
\* for the payment they made
EntryPays == {1, 2}

EntryNext ==
  \/ \E i \in ServerReqs :
       ReceiveEntry(i) \/ Lookup(i) \/ Rpc(i) \/ Fallback(i) \/ InsertTx(i) \/ UpdatePayment(i)
  \/ \E k \in EntryPays : CreateReceive(k) \/ CreateInsert(k)

EntrySpec == Init /\ [][EntryNext]_vars

====
